---------------------------- MODULE Spec2Model ----------------------------
(***************************************************************************)
(* A model of eTree (Electritects/eTree): the recursive directory walker   *)
(* printTree of etree.cpp, its exclude-pattern matcher, and the part of    *)
(* main that drives it.  Strings are sequences of character codes, the     *)
(* directory tree is a finite forest of nodes below an implicit root, and  *)
(* the recursion of printTree is an explicit stack of call frames.         *)
(***************************************************************************)
EXTENDS Integers, Sequences, FiniteSets, TLC

VARIABLES
  platform,   \* "posix" | "win32": which #ifdef branch of etree.cpp was built
  console,    \* is_console(): stdout is a terminal
  args,       \* struct Args, as parseArgs left it
  fs,         \* the directory tree below args.folder: node i is fs[i]
  pc,         \* position of main: "start" | "run" | "done" | "aborted"
  stack,      \* the active printTree calls, innermost last
  stats,      \* struct TreeStats
  out,        \* lines written to stdout
  err,        \* reports written to stderr
  faults,     \* the filesystem queries that have failed so far
  healthy,    \* TRUE: the filesystem answers every query of this run
  tsv,        \* the export file: <<>> while it does not exist, else its lines
  mName,      \* matcher harness: the name handed to matchesPattern
  mPattern,   \* matcher harness: the pattern handed to matchesPattern
  mResult,    \* matcher harness: what matchesPattern returned
  first,      \* two-run harness: what the first of two runs produced
  wIn,        \* shaper harness: the string handed to wrap_rtl
  wOut,       \* shaper harness: the calls made and what the last returned
  argv,       \* parser harness: the command line after the program name
  parsed,     \* whether parseArgs ran, threw, and what it returned
  returned,   \* what main returned: <<>> while it runs, then <<0>> or <<1>>
  calls       \* the directories printTree was called for, in order

vars == <<platform, console, args, fs, pc, stack, stats, out, err, faults,
          healthy, tsv, mName, mPattern, mResult, first, wIn, wOut,
          argv, parsed, returned, calls>>

travVars ==
  <<platform, console, args, fs, pc, stack, stats, out, err, faults, healthy,
    tsv>>
idleVars == <<mName, mPattern, mResult, first, wIn, wOut, argv, parsed>>
harnessVars == <<idleVars, returned, calls>>

---------------------------------------------------------------------------
(* Character codes.                                                        *)

chNL == 10
chCR == 13
chStar == 42
chPlus == 43
chDot == 46
chSlash == 47
chQuest == 63
chUpperA == 65
chUpperZ == 90
chLBrack == 91
chBackslash == 92
caseOffset == 32

---------------------------------------------------------------------------
(* Bounds of the model.                                                    *)

\* the largest number of entries below the root
MaxNodes == 3
\* the longest name and the longest pattern handed to the matcher harness
MaxMatchLen == 3
\* the longest string handed to wrap_rtl on its own
MaxWrapLen == 5

---------------------------------------------------------------------------
(* Sequences.                                                              *)

\* std::string comparison: lexicographic by character code; a proper prefix
\* is smaller
RECURSIVE StrLess(_, _)
StrLess(a, b) ==
  IF b = <<>> THEN FALSE
  ELSE IF a = <<>> THEN TRUE
  ELSE IF Head(a) # Head(b) THEN Head(a) < Head(b)
  ELSE StrLess(Tail(a), Tail(b))

SeqsUpTo(S, n) == UNION {[1..k -> S] : k \in 0..n}

Range(s) == {s[k] : k \in DOMAIN s}

\* the second argument whatever the first
MaxTakesSecond(a, b) == b
Max(a, b) == IF a >= b THEN a ELSE b

---------------------------------------------------------------------------
(* matchesPattern (etree.cpp): the wildcard pattern is rewritten into a    *)
(* regular expression by three std::regex_replace passes, compiled as an   *)
(* ECMAScript std::regex with icase, and matched against the whole name.   *)

\* std::regex_replace(s, std::regex(<from>), <to>): every character `from`
\* of s is replaced by the characters `to`
RECURSIVE ReplaceChar(_, _, _)
ReplaceChar(s, from, to) ==
  IF s = <<>> THEN <<>>
  ELSE (IF Head(s) = from THEN to ELSE <<Head(s)>>)
         \o ReplaceChar(Tail(s), from, to)

\* the three passes: "." -> "\.", then "?" -> ".", then "*" -> ".*"
RegexPattern(pattern) ==
  ReplaceChar(ReplaceChar(ReplaceChar(pattern,
      chDot, <<chBackslash, chDot>>),
      chQuest, <<chDot>>),
      chStar, <<chDot, chStar>>)

IsQuantifier(c) == c \in {chStar, chPlus}

\* std::regex's ECMAScript parser on the characters the model's patterns can
\* hold: a term is an atom ("\c" an escaped literal, "." any character, any
\* other character a literal) and at most one quantifier ("*", "+").  A
\* quantifier with no atom before it, a "\" at the end and a "[" that no "]"
\* closes make std::regex throw std::regex_error.
RECURSIVE ParseRegex(_)
ParseRegex(r) ==
  IF r = <<>> THEN [threw |-> FALSE, terms |-> <<>>]
  ELSE
    LET c == Head(r)
        atomLen == IF c = chBackslash THEN 2 ELSE 1
        bad == \/ IsQuantifier(c)
               \/ c = chLBrack
               \/ (c = chBackslash /\ Len(r) < 2)
    IN IF bad THEN [threw |-> TRUE, terms |-> <<>>]
       ELSE
         LET atom == IF c = chBackslash THEN [any |-> FALSE, ch |-> r[2]]
                     ELSE IF c = chDot THEN [any |-> TRUE, ch |-> chDot]
                     ELSE [any |-> FALSE, ch |-> c]
             hasQ == Len(r) > atomLen /\ IsQuantifier(r[atomLen + 1])
             q == IF hasQ THEN r[atomLen + 1] ELSE 0
             used == IF hasQ THEN atomLen + 1 ELSE atomLen
             rest == ParseRegex(SubSeq(r, used + 1, Len(r)))
         IN IF rest.threw THEN rest
            ELSE [threw |-> FALSE,
                  terms |-> <<[any |-> atom.any, ch |-> atom.ch, q |-> q]>>
                              \o rest.terms]

\* std::regex_traits::translate_nocase: tolower in the "C" locale
ToLower(c) == IF c >= chUpperA /\ c <= chUpperZ THEN c + caseOffset ELSE c

\* one atom against one character: "." matches anything but a line
\* terminator, a literal matches itself ignoring case
AtomMatches(t, c) ==
  IF t.any THEN c \notin {chNL, chCR} ELSE ToLower(t.ch) = ToLower(c)

\* std::regex_match: the terms must consume the whole of s
RECURSIVE RegexMatch(_, _)
RegexMatch(terms, s) ==
  IF terms = <<>> THEN s = <<>>
  ELSE
    LET t == Head(terms)
        step == s # <<>> /\ AtomMatches(t, Head(s))
    IN IF t.q = chStar
         THEN RegexMatch(Tail(terms), s) \/ (step /\ RegexMatch(terms, Tail(s)))
       ELSE IF t.q = chPlus
         THEN step /\ RegexMatch(<<[t EXCEPT !.q = chStar]>> \o Tail(terms),
                                 Tail(s))
       ELSE step /\ RegexMatch(Tail(terms), Tail(s))

\* the regular-expression part of matchesPattern, for every pattern
MatchRegex(name, pattern) ==
  LET re == ParseRegex(RegexPattern(pattern))
  IN IF re.threw THEN [threw |-> TRUE, value |-> FALSE]
     ELSE [threw |-> FALSE, value |-> RegexMatch(re.terms, name)]

\* matchesPattern without its check for the empty pattern
matchesPatternNoEmptyCheck(name, pattern) == MatchRegex(name, pattern)
\* matchesPattern(name, pattern): threw = a std::regex_error left the call
matchesPattern(name, pattern) ==
  IF pattern = <<>> THEN [threw |-> FALSE, value |-> FALSE]
  ELSE MatchRegex(name, pattern)

---------------------------------------------------------------------------
(* The filesystem below args.folder.  Node 0 is the root directory; node i *)
(* (i >= 1) is the record fs[i].  Nodes are numbered breadth-first with    *)
(* siblings in name order, so every finite tree has exactly one numbering. *)

Root == 0

\* the names an entry can have, as sequences of Unicode code points: ".a"
\* (a dot file), U+FF5E ".t" (a fullwidth tilde, in the Basic Multilingual
\* Plane) and U+1F600 (outside it)
NameDotA == <<chDot, 97>>
NameTildeT == <<65374, chDot, 116>>
NameEmoji == <<128512>>
Names == {NameDotA, NameTildeT, NameEmoji}

\* one code point as UTF-16 code units: the wchar_t of std::wstring on
\* Windows
Utf16(c) ==
  IF c < 65536 THEN <<c>>
  ELSE <<55296 + ((c - 65536) \div 1024), 56320 + ((c - 65536) % 1024)>>

\* one code point as UTF-8 bytes: the char of std::string
Utf8(c) ==
  IF c < 128 THEN <<c>>
  ELSE IF c < 2048 THEN <<192 + (c \div 64), 128 + (c % 64)>>
  ELSE IF c < 65536
    THEN <<224 + (c \div 4096), 128 + ((c \div 64) % 64), 128 + (c % 64)>>
  ELSE <<240 + (c \div 262144), 128 + ((c \div 4096) % 64),
         128 + ((c \div 64) % 64), 128 + (c % 64)>>

RECURSIVE Flatten(_)
Flatten(ss) == IF ss = <<>> THEN <<>> ELSE Head(ss) \o Flatten(Tail(ss))

\* a name as UTF-16 code units and as UTF-8 bytes
Utf16Str(name) == Flatten([k \in DOMAIN name |-> Utf16(name[k])])
Utf8Str(name) == Flatten([k \in DOMAIN name |-> Utf8(name[k])])

\* entry.path().filename().string() on POSIX and wstring_to_utf8(name) on
\* Windows: the bytes handed to the matcher
NarrowName(name) == Utf8Str(name)

\* st_mode permission bits of a node (POSIX), as fs::perms names them
DirMode == {"owner_read", "owner_write", "owner_exec", "group_read",
            "group_exec", "others_read", "others_exec"}
FileMode == {"owner_read", "owner_write", "group_read", "others_read"}

Node(parent, name, isDir, attrs) ==
  [parent |-> parent, name |-> name, isDir |-> isDir,
   bytes |-> IF isDir THEN 4096 ELSE 10,
   mode |-> IF isDir THEN DirMode ELSE FileMode,
   attrs |-> attrs]

\* node `nd` may be appended to the tree t
CanAppend(t, nd) ==
  /\ nd.parent \in 0..Len(t)
  /\ nd.parent # Root => t[nd.parent].isDir
  /\ \A i \in 1..Len(t) :
       /\ t[i].parent <= nd.parent
       /\ t[i].parent = nd.parent => StrLess(t[i].name, nd.name)

\* the trees of n nodes whose names come from `names`
RECURSIVE TreesOver(_, _)
TreesOver(names, n) ==
  IF n = 0 THEN {<<>>}
  ELSE {Append(t, Node(p, nm, d, {})) :
          <<t, p, nm, d>> \in
            {x \in TreesOver(names, n - 1) \X (0..(n - 1)) \X names \X BOOLEAN :
               CanAppend(x[1], Node(x[2], x[3], x[4], {}))}}

TreesOfSize(n) == TreesOver(Names, n)

Trees == UNION {TreesOfSize(n) : n \in 0..MaxNodes}

\* the Windows attribute bits the model keeps: FILE_ATTRIBUTE_HIDDEN on at
\* most one node, FILE_ATTRIBUTE_ARCHIVE on every file
WithAttrs(t, h) ==
  [i \in 1..Len(t) |->
     [t[i] EXCEPT !.attrs = (IF t[i].isDir THEN {} ELSE {"A"})
                              \cup (IF i = h THEN {"H"} ELSE {})]]

Nodes == 1..Len(fs)
Children(d) == {i \in Nodes : fs[i].parent = d}
IsDirNode(n) == n = Root \/ fs[n].isDir

\* the level of the printTree call that lists node n's directory: 1 for the
\* root's children
RECURSIVE Depth(_)
Depth(n) == IF n = Root THEN 0 ELSE 1 + Depth(fs[n].parent)

\* the nodes from the root's child down to n
RECURSIVE PathTo(_)
PathTo(n) == IF n = Root THEN <<>> ELSE Append(PathTo(fs[n].parent), n)

Ancestors(n) == Range(PathTo(n)) \ {n}

---------------------------------------------------------------------------
(* struct Args and the configurations a run can start from.                *)

\* the exclude patterns of the traversal: none, "*.t" and the malformed "["
PatNone == <<>>
PatStarDotT == <<chStar, chDot, 116>>
PatBracket == <<chLBrack>>
Patterns == {PatNone, PatStarDotT, PatBracket}

\* the values of -l the model starts from
Levels == {-1, 0, 1, 2}

CsvFile == <<111, chDot, 116>>

\* Args::Args(): the defaults
DefaultArgs ==
  [folder |-> <<chDot>>, excludePattern |-> PatNone, csvOut |-> <<>>,
   maxLevel |-> 0,
   showHidden |-> FALSE, showDirsOnly |-> FALSE, showSize |-> FALSE,
   showPerms |-> FALSE, nocolors |-> FALSE,
   showHelp |-> FALSE, showVersion |-> FALSE]

AllArgs ==
  [folder : {<<chDot>>}, excludePattern : Patterns, csvOut : {<<>>, CsvFile},
   maxLevel : Levels, showHidden : BOOLEAN, showDirsOnly : BOOLEAN,
   showSize : BOOLEAN, showPerms : BOOLEAN, nocolors : BOOLEAN,
   showHelp : {FALSE}, showVersion : {FALSE}]

\* the options of a that differ from the defaults
Changed(a) == {f \in DOMAIN a : a[f] # DefaultArgs[f]}

\* a bound of the model: a run is started with or without -o and with at
\* most one further change: one other option, or a redirected stdout, or
\* (Windows) the hidden attribute on one node
OneOption == {a \in AllArgs : \A f, g \in Changed(a) \ {"csvOut"} : f = g}
NoOption == {a \in AllArgs : Changed(a) \subseteq {"csvOut"}}

\* <<args, console, the node with the hidden attribute or 0>>
Scenarios(t) ==
  (OneOption \X {TRUE} \X {0})
    \cup (NoOption \X {FALSE} \X {0})
    \cup (NoOption \X {TRUE} \X (1..Len(t)))

---------------------------------------------------------------------------
(* RTL shaping of console names (Windows build of etree.cpp).              *)

chSpace == 32
rtlLo1 == 1424
rtlHi1 == 2303
rtlLo2 == 64336
rtlHi2 == 65023
rtlLo3 == 65136
rtlHi3 == 65279

is_arabic(c) ==
  \/ (c >= rtlLo1 /\ c <= rtlHi1)
  \/ (c >= rtlLo2 /\ c <= rtlHi2)
  \/ (c >= rtlLo3 /\ c <= rtlHi3)

contains_rtl(s) == \E k \in DOMAIN s : is_arabic(s[k])

Reverse(s) == [k \in 1..Len(s) |-> s[Len(s) + 1 - k]]

\* the number of spaces at the end of buf
RECURSIVE TrailingSpaces(_)
TrailingSpaces(buf) ==
  IF buf # <<>> /\ buf[Len(buf)] = chSpace
    THEN 1 + TrailingSpaces(SubSeq(buf, 1, Len(buf) - 1))
    ELSE 0

\* the flush of wrap_rtl: a buffer holding an RTL character is reversed, its
\* trailing spaces kept behind it; any other buffer is copied
FlushBuf(buf, buf_has_rtl) ==
  IF buf_has_rtl
    THEN LET n == TrailingSpaces(buf)
         IN Reverse(SubSeq(buf, 1, Len(buf) - n))
              \o SubSeq(buf, Len(buf) - n + 1, Len(buf))
    ELSE buf

\* the loop of wrap_rtl over the characters of s from position k
RECURSIVE WrapLoop(_, _, _, _, _)
WrapLoop(s, k, res, buf, buf_has_rtl) ==
  IF k > Len(s) THEN res \o FlushBuf(buf, buf_has_rtl)
  ELSE IF is_arabic(s[k])
    THEN WrapLoop(s, k + 1, res, Append(buf, s[k]), TRUE)
  ELSE IF s[k] = chSpace
    THEN WrapLoop(s, k + 1, res, Append(buf, s[k]), buf_has_rtl)
  ELSE WrapLoop(s, k + 1,
                Append(res \o FlushBuf(buf, buf_has_rtl), s[k]), <<>>, FALSE)

wrap_rtl(s) == WrapLoop(s, 1, <<>>, <<>>, FALSE)

---------------------------------------------------------------------------
(* Helpers of printTree.                                                   *)

\* enable_colors(nocolors)
enable_colors(nocolors) == ~nocolors /\ console

\* fs::path(a) / b, as a string: the platform's preferred separator joins
\* the two
PathJoin(a, b) ==
  a \o <<IF platform = "win32" THEN chBackslash ELSE chSlash>> \o b

\* the row's relative path: relpath.empty() ? filename : path(relpath)/filename
RowRelpath(relpath, name) ==
  IF relpath = <<>> THEN name ELSE PathJoin(relpath, name)

\* the relative path handed to the recursive call
ChildRelpath(relpath, name) ==
  IF relpath = <<>> THEN name ELSE relpath \o <<chSlash>> \o name

\* the tree-drawing strings of printTree
chBacktick == 96
chMinus == 45
chBar == 124
BranchLast == <<chBacktick, chMinus, chMinus, chSpace>>
BranchMid == <<chBar, chMinus, chMinus, chSpace>>
IndentLast == <<chSpace, chSpace, chSpace, chSpace>>
IndentMid == <<chBar, chSpace, chSpace, chSpace>>

\* the prefix handed to the recursive call
\* the children drawn at their parent's indentation
ChildPrefixFlat(prefix, entryIsLast) == prefix

ChildPrefix(prefix, entryIsLast) ==
  prefix \o (IF entryIsLast THEN IndentLast ELSE IndentMid)

\* the glyph of the last entry on every line
BranchAlwaysLast(entryIsLast) == BranchLast

Branch(entryIsLast) == IF entryIsLast THEN BranchLast ELSE BranchMid

\* getPermissions on POSIX: nine characters from the permission bits
PosixPerms(mode) ==
  [k \in 1..9 |->
     LET bit == <<"owner_read", "owner_write", "owner_exec",
                  "group_read", "group_write", "group_exec",
                  "others_read", "others_write", "others_exec">>[k]
         letter == <<"r", "w", "x">>[((k - 1) % 3) + 1]
     IN IF bit \in mode THEN letter ELSE "-"]

\* getPermissions on Windows: R, H, S, A for the attributes set, "-" for none
\* and for attributes that cannot be read
WinPerms(attrs, readable) ==
  LET letters == SelectSeq(<<"R", "H", "S", "A">>, LAMBDA x : x \in attrs)
  IN IF ~readable \/ letters = <<>> THEN <<"-">> ELSE letters

\* getPermissions(entry); failed = the attribute query failed
getPermissions(n, failed) ==
  IF platform = "win32" THEN WinPerms(fs[n].attrs, ~failed)
  ELSE PosixPerms(fs[n].mode)

\* get_file_times(path): Windows formats the two FILETIMEs, POSIX has none
get_file_times(n, failed) ==
  IF platform = "win32" /\ ~failed
    THEN <<<<"created", n>>, <<"modified", n>>>>
    ELSE <<"", "">>

\* the name shown on a console: wrap_rtl on the Windows console only
DisplayName(name) ==
  IF platform = "win32" /\ console /\ contains_rtl(name)
    THEN wrap_rtl(name) ELSE name

\* the hidden-file filter looking at the attribute only
IsHiddenAttrOnly(n, attrFailed) ==
  platform = "win32" /\ ~attrFailed /\ "H" \in fs[n].attrs
\* the hidden-file filter of the enumeration loop
IsHidden(n, attrFailed) ==
  \/ (platform = "win32" /\ ~attrFailed /\ "H" \in fs[n].attrs)
  \/ (fs[n].name # <<>> /\ fs[n].name[1] = chDot)

\* the test of showHidden the wrong way round
SkipHiddenFlipped(n, attrFailed) == args.showHidden /\ IsHidden(n, attrFailed)
\* the enumeration loop skips entry n as hidden
SkipHidden(n, attrFailed) == ~args.showHidden /\ IsHidden(n, attrFailed)

\* the enumeration loop of printTree over the raw listing, from position k:
\* bad holds the queries that fail, hit those that were made and failed
RECURSIVE FilterLoop(_, _, _, _, _)
FilterLoop(raw, k, entries, bad, hit) ==
  IF k > Len(raw) THEN [threw |-> FALSE, entries |-> entries, hit |-> hit]
  ELSE
    LET e == raw[k]
        askAttr == ~args.showHidden /\ platform = "win32"
        attrFailed == <<"attrs", e>> \in bad
        hit1 == hit \cup (IF askAttr /\ attrFailed THEN {<<"attrs", e>>} ELSE {})
    IN IF SkipHidden(e, attrFailed)
         THEN FilterLoop(raw, k + 1, entries, bad, hit1)
       ELSE
         LET m == IF args.excludePattern # <<>>
                    THEN matchesPattern(NarrowName(fs[e].name),
                                        args.excludePattern)
                    ELSE [threw |-> FALSE, value |-> FALSE]
         IN IF m.threw THEN [threw |-> TRUE, entries |-> <<>>, hit |-> hit1]
            ELSE IF m.value THEN FilterLoop(raw, k + 1, entries, bad, hit1)
            ELSE IF args.showDirsOnly /\ <<"isdir", e>> \in bad
              THEN [threw |-> TRUE, entries |-> <<>>,
                    hit |-> hit1 \cup {<<"isdir", e>>}]
            ELSE IF args.showDirsOnly /\ ~fs[e].isDir
              THEN FilterLoop(raw, k + 1, entries, bad, hit1)
            ELSE FilterLoop(raw, k + 1, Append(entries, e), bad, hit1)

\* the string std::sort compares: filename().wstring() on Windows, UTF-16
\* code units; filename().string() on POSIX, bytes
SortKey(n) ==
  IF platform = "win32" THEN Utf16Str(fs[n].name) ELSE Utf8Str(fs[n].name)

\* the comparator of std::sort: a.filename() < b.filename()
EntryLess(a, b) == StrLess(SortKey(a), SortKey(b))

\* e put into the sorted sequence s
RECURSIVE InsertSorted(_, _)
InsertSorted(s, e) ==
  IF s = <<>> THEN <<e>>
  ELSE IF EntryLess(e, Head(s)) THEN <<e>> \o s
  ELSE <<Head(s)>> \o InsertSorted(Tail(s), e)

\* the entries left in the order of the enumeration
SortEntriesKeepsOrder(s) == s

\* std::sort(entries.begin(), entries.end(), ...)
RECURSIVE SortEntries(_)
SortEntries(s) ==
  IF s = <<>> THEN <<>>
  ELSE InsertSorted(SortEntries(SubSeq(s, 1, Len(s) - 1)), s[Len(s)])

\* the orders in which the directory_iterator can hand out the children of d
Listings(d) ==
  LET C == Children(d)
  IN {r \in [1..Cardinality(C) -> C] : Range(r) = C}

---------------------------------------------------------------------------
(* main and printTree as a state machine.  A frame of `stack` is one call  *)
(* of printTree: its parameters, whether it has listed its directory, its  *)
(* sorted entries and the number i of entries its loop has processed.      *)

Frame(dir, level, prefix, isLast, relpath) ==
  [dir |-> dir, level |-> level, prefix |-> prefix, isLast |-> isLast,
   relpath |-> relpath, listed |-> FALSE, entries |-> <<>>, i |-> 0]

Top == stack[Len(stack)]
Pop == SubSeq(stack, 1, Len(stack) - 1)
ExportMode == args.csvOut # <<>>

\* a bound of the model: at most one filesystem query fails in a run
MayFail == ~healthy /\ faults = {}
AtMostOne(S) == \A u, v \in S : u = v
MayFailAll(F) == F = {} \/ (MayFail /\ AtMostOne(F))

\* TreeStats(): the defaults
InitStats == [maxDepth |-> 0, folders |-> 0, files |-> 0, csvRows |-> <<>>]

\* main, from the console check to the call of printTree: colours are
\* switched off for redirected output, the root line is written unless a
\* TSV export was asked for
\* main applying the hidden filter and the exclude pattern to the root
MainStartFilteringRoot ==
  /\ pc = "start"
  /\ args' = [args EXCEPT !.nocolors = args.nocolors \/ ~console]
  /\ out' = IF ~ExportMode
              THEN Append(out, [kind |-> "root", name |-> args.folder,
                                color |-> IF enable_colors(args'.nocolors)
                                            THEN "dircolor" ELSE ""])
              ELSE out
  /\ stack' = IF \/ (~args.showHidden /\ Head(args.folder) = chDot)
                 \/ matchesPattern(NarrowName(args.folder),
                                   args.excludePattern).value
                THEN <<>> ELSE <<Frame(Root, 1, <<>>, TRUE, <<>>)>>
  /\ pc' = "run"
  /\ calls' = calls \o [k \in DOMAIN stack' |-> stack'[k].dir]
  /\ UNCHANGED <<idleVars, returned, healthy, platform, console, fs, stats, err,
                 faults, tsv>>

MainStart ==
  /\ pc = "start"
  /\ args' = [args EXCEPT !.nocolors = args.nocolors \/ ~console]
  /\ out' = IF ~ExportMode
              THEN Append(out, [kind |-> "root", name |-> args.folder,
                                color |-> IF enable_colors(args'.nocolors)
                                            THEN "dircolor" ELSE ""])
              ELSE out
  /\ stack' = <<Frame(Root, 1, <<>>, TRUE, <<>>)>>
  /\ pc' = "run"
  /\ calls' = calls \o [k \in DOMAIN stack' |-> stack'[k].dir]
  /\ UNCHANGED <<idleVars, returned, healthy, platform, console, fs, stats, err,
                 faults, tsv>>

\* the depth check letting one more level through
PassesDepthLimitOffByOne ==
  ~(args.maxLevel > 0 /\ Top.level > args.maxLevel + 1)
\* the depth check taking every maxLevel but 0 for a limit
PassesDepthLimitNonZero ==
  ~(args.maxLevel # 0 /\ Top.level > args.maxLevel)
\* the depth check at the head of printTree lets the call go on
PassesDepthLimit == ~(args.maxLevel > 0 /\ Top.level > args.maxLevel)

\* printTree: the depth limit returns before the directory is opened
DepthLimit ==
  /\ pc = "run" /\ stack # <<>> /\ ~Top.listed
  /\ ~PassesDepthLimit
  /\ stack' = Pop
  /\ UNCHANGED <<harnessVars, healthy, platform, console, args, fs, pc, stats, out, err, faults, tsv>>

\* the report of the catch block of printTree
EnumError(d) == [dir |-> d, what |-> "Failed to enumerate directory"]

\* printTree: the directory_iterator throws; the catch block reports the
\* directory and returns
EnumerateThrows ==
  /\ pc = "run" /\ stack # <<>> /\ ~Top.listed /\ PassesDepthLimit
  /\ MayFail
  /\ faults' = faults \cup {<<"list", Top.dir>>}
  /\ err' = Append(err, EnumError(Top.dir))
  /\ stack' = Pop
  /\ UNCHANGED <<harnessVars, healthy, platform, console, args, fs, pc, stats, out, tsv>>

\* printTree: the directory cannot be opened for lack of permission;
\* skip_permission_denied makes the iterator empty instead of throwing
EnumerateDenied ==
  /\ pc = "run" /\ stack # <<>> /\ ~Top.listed /\ PassesDepthLimit
  /\ MayFail
  /\ faults' = faults \cup {<<"denied", Top.dir>>}
  /\ stack' = [stack EXCEPT ![Len(stack)].listed = TRUE]
  /\ UNCHANGED <<harnessVars, healthy, platform, console, args, fs, pc, stats, out, err, tsv>>

\* the queries of the enumeration loop that can fail for the children of d
FilterQueries(d) ==
  {<<q, c>> : q \in {"attrs", "isdir"}, c \in Children(d)}

\* printTree: the enumeration loop runs over the listing, in whatever order
\* the filesystem hands it out, then the entries are sorted; an exception in
\* the loop (a failing is_directory, a std::regex_error) reaches the catch
\* block
Enumerate ==
  /\ pc = "run" /\ stack # <<>> /\ ~Top.listed /\ PassesDepthLimit
  /\ \E raw \in Listings(Top.dir), bad \in SUBSET FilterQueries(Top.dir) :
       LET r == FilterLoop(raw, 1, <<>>, bad, {})
       IN /\ MayFailAll(bad)
          /\ r.hit = bad
          /\ faults' = faults \cup bad
          /\ IF r.threw
               THEN /\ err' = Append(err, EnumError(Top.dir))
                    /\ stack' = Pop
               ELSE /\ err' = err
                    /\ stack' = [stack EXCEPT
                                   ![Len(stack)].listed = TRUE,
                                   ![Len(stack)].entries = SortEntries(r.entries)]
  /\ UNCHANGED <<harnessVars, healthy, platform, console, args, fs, pc, stats, out, tsv>>

\* the entry the loop of the innermost call is at
CurEntry == Top.entries[Top.i + 1]
InLoop == pc = "run" /\ stack # <<>> /\ Top.listed /\ Top.i < Len(Top.entries)

\* the queries printTree makes for entry e in one turn of its loop
EntryQueries(e) ==
  {<<"isdir", e>>}
    \cup (IF ~fs[e].isDir /\ (ExportMode \/ args.showSize)
            THEN {<<"size", e>>} ELSE {})
    \cup (IF ExportMode \/ args.showPerms
            THEN {<<IF platform = "win32" THEN "attrs" ELSE "status", e>>}
            ELSE {})
    \cup (IF ExportMode /\ platform = "win32" THEN {<<"times", e>>} ELSE {})

\* file_size() applied to directories as well
EntrySizeOfAnything(e, F) == IF <<"size", e>> \in F THEN 0 ELSE fs[e].bytes
\* the size printTree gets for entry e: 0 for a directory and when
\* file_size() throws
EntrySize(e, F) ==
  IF fs[e].isDir \/ <<"size", e>> \in F THEN 0 ELSE fs[e].bytes

\* the size suffix " [<n> B]" of a console line: `opened` counts the " ["
\* written.  On POSIX file_size() is called in the middle of the output
\* statement, after " [" has gone out, so that when it throws the catch
\* block writes a second " [" before "0 B]"; on Windows the size is fetched
\* before anything is written
SizeSuffix(e, F) ==
  [opened |-> IF platform = "posix" /\ ~fs[e].isDir /\ <<"size", e>> \in F
                THEN 2 ELSE 1,
   bytes |-> EntrySize(e, F)]

\* the console line of entry e, as far as it gets written
EntryLine(e, F, complete) ==
  [kind |-> "entry", node |-> e, prefix |-> Top.prefix,
   color |-> IF enable_colors(args.nocolors)
               THEN (IF fs[e].isDir THEN "dircolor" ELSE "filecolor") ELSE "",
   branch |-> Branch(Top.i + 1 = Len(Top.entries)),
   name |-> DisplayName(fs[e].name),
   size |-> IF args.showSize THEN <<SizeSuffix(e, F)>> ELSE <<>>,
   perms |-> IF args.showPerms /\ complete
               THEN <<getPermissions(e, <<"attrs", e>> \in F)>> ELSE <<>>,
   complete |-> complete]

\* the CsvRow of entry e
EntryRow(e, F) ==
  LET times == get_file_times(e, <<"times", e>> \in F)
  IN [node |-> e,
      relpath |-> RowRelpath(Top.relpath, fs[e].name),
      name |-> fs[e].name,
      type |-> IF fs[e].isDir THEN "folder" ELSE "file",
      bytes |-> EntrySize(e, F),
      perms |-> getPermissions(e, <<"attrs", e>> \in F),
      created |-> times[1],
      modified |-> times[2]]

\* the line of entry e written whether or not a TSV export was asked for
OutAfterAlways(e, F, complete) == Append(out, EntryLine(e, F, complete))
\* stdout after the line of entry e: nothing is written for a TSV export
OutAfter(e, F, complete) ==
  IF ExportMode THEN out ELSE Append(out, EntryLine(e, F, complete))

\* stats.csvRows after entry e: a row is appended for a TSV export only
RowsAfter(e, F) ==
  IF ExportMode THEN Append(stats.csvRows, EntryRow(e, F)) ELSE stats.csvRows

\* the loop going on to the next entry without the recursive call
AfterEntryWithoutCall(e) == [stack EXCEPT ![Len(stack)].i = Top.i + 1]

\* the loop of printTree after entry e: the next index, and the recursive
\* call when e is a directory
AfterEntry(e) ==
  LET entryIsLast == Top.i + 1 = Len(Top.entries)
      caller == [stack EXCEPT ![Len(stack)].i = Top.i + 1]
  IN IF fs[e].isDir
       THEN Append(caller,
                   Frame(e, Top.level + 1, ChildPrefix(Top.prefix, entryIsLast),
                         entryIsLast, ChildRelpath(Top.relpath, fs[e].name)))
       ELSE caller

\* every entry counted as a file
CountEntryAsFile(st, e) == [st EXCEPT !.files = st.files + 1]
\* the counters of TreeStats after entry e
CountEntry(st, e) ==
  IF fs[e].isDir THEN [st EXCEPT !.folders = st.folders + 1]
  ELSE [st EXCEPT !.files = st.files + 1]

\* printTree: one turn of the loop over the sorted entries; the queries in F
\* fail and are recovered from (file_size() in its try block, the Windows
\* attribute and time queries by their return value)
ProcessEntry ==
  /\ InLoop
  /\ \E F \in SUBSET (EntryQueries(CurEntry)
                        \ {<<"isdir", CurEntry>>, <<"status", CurEntry>>}) :
       /\ MayFailAll(F)
       /\ faults' = faults \cup F
       /\ out' = OutAfter(CurEntry, F, TRUE)
       /\ stats' = CountEntry([stats EXCEPT !.csvRows = RowsAfter(CurEntry, F)],
                              CurEntry)
  /\ stack' = AfterEntry(CurEntry)
  /\ calls' = calls \o [k \in 1..(Len(stack') - Len(stack)) |->
                         stack'[Len(stack) + k].dir]
  /\ UNCHANGED <<idleVars, returned, healthy, platform, console, args, fs, pc,
                 err, tsv>>

\* printTree: entry.is_directory() throws at the head of the loop, outside
\* every try block: the exception leaves printTree and main, and the process
\* is terminated
IsDirectoryThrows ==
  /\ InLoop
  /\ MayFail
  /\ faults' = faults \cup {<<"isdir", CurEntry>>}
  /\ pc' = "aborted"
  /\ UNCHANGED <<harnessVars, healthy, platform, console, args, fs, stack, stats, out, err, tsv>>

\* printTree (POSIX): entry.status() throws inside getPermissions, outside
\* every try block: the name and the size suffix are already written, the
\* row is not yet appended, and the process is terminated
StatusThrows ==
  /\ InLoop
  /\ <<"status", CurEntry>> \in EntryQueries(CurEntry)
  /\ \E F \in SUBSET (EntryQueries(CurEntry) \ {<<"isdir", CurEntry>>}) :
       /\ <<"status", CurEntry>> \in F
       /\ MayFailAll(F)
       /\ faults' = faults \cup F
       /\ out' = OutAfter(CurEntry, F, FALSE)
  /\ pc' = "aborted"
  /\ UNCHANGED <<harnessVars, healthy, platform, console, args, fs, stack, stats, err, tsv>>

\* printTree: the loop is over; maxDepth is raised to this call's level and
\* the call returns
Return ==
  /\ pc = "run" /\ stack # <<>> /\ Top.listed /\ Top.i = Len(Top.entries)
  /\ stats' = [stats EXCEPT !.maxDepth = Max(stats.maxDepth, Top.level)]
  /\ stack' = Pop
  /\ UNCHANGED <<harnessVars, healthy, platform, console, args, fs, pc, out, err, faults, tsv>>

\* writeTsv: the byte-order mark and the header, then one line per row
chTab == 9

\* the file as writeTsv's stream receives it: the characters of the strings
\* it is handed, one item each, and one item for each piece of text the
\* program itself makes up (a column title, a number, a timestamp)
TsvChars(str) == [k \in DOMAIN str |-> [ch |-> str[k]]]
TsvWord(w) == <<[text |-> w]>>
TsvTab == <<[ch |-> chTab]>>
TsvEol == <<[ch |-> chNL]>>
TsvTime(t) == IF t = "" THEN <<>> ELSE <<[time |-> t]>>
TsvPerms(perms) == [k \in DOMAIN perms |-> [text |-> perms[k]]]
TsvBom == <<[text |-> "BOM"]>>

TsvHeader ==
  TsvWord("Relative Path") \o TsvTab \o TsvWord("Name") \o TsvTab
    \o TsvWord("Type") \o TsvTab \o TsvWord("Size (bytes)") \o TsvTab
    \o TsvWord("Created") \o TsvTab \o TsvWord("Modified") \o TsvTab
    \o TsvWord("Permissions") \o TsvEol

TsvLine(row) ==
  TsvChars(row.relpath) \o TsvTab \o TsvChars(row.name) \o TsvTab
    \o TsvWord(row.type) \o TsvTab \o <<[num |-> row.bytes]>> \o TsvTab
    \o TsvTime(row.created) \o TsvTab \o TsvTime(row.modified) \o TsvTab
    \o TsvPerms(row.perms) \o TsvEol

\* writeTsv without the byte-order mark
writeTsvWithoutBom(st) ==
  TsvHeader
    \o Flatten([k \in 1..Len(st.csvRows) |-> TsvLine(st.csvRows[k])])

writeTsv(st) ==
  TsvBom \o TsvHeader
    \o Flatten([k \in 1..Len(st.csvRows) |-> TsvLine(st.csvRows[k])])

\* main after printTree returned, export asked for: writeTsv writes the file
MainExport ==
  /\ pc = "run" /\ stack = <<>> /\ ExportMode
  /\ tsv' = writeTsv(stats)
  /\ pc' = "done"
  /\ returned' = <<0>>
  /\ UNCHANGED <<idleVars, calls, healthy, platform, console, args, fs, stack, stats, out, err, faults>>

\* main after printTree returned, export asked for: writeTsv cannot create
\* the file, reports it and returns
MainExportFails ==
  /\ pc = "run" /\ stack = <<>> /\ ExportMode
  /\ MayFail
  /\ faults' = faults \cup {<<"open", Root>>}
  /\ err' = Append(err, [dir |-> Root, what |-> "Could not create file"])
  /\ pc' = "done"
  /\ returned' = <<0>>
  /\ UNCHANGED <<idleVars, calls, healthy, platform, console, args, fs, stack, stats, out, tsv>>

\* main after printTree returned, no export: the summary line
MainSummary ==
  /\ pc = "run" /\ stack = <<>> /\ ~ExportMode
  /\ out' = Append(out, [kind |-> "summary", maxDepth |-> stats.maxDepth,
                         folders |-> stats.folders, files |-> stats.files])
  /\ pc' = "done"
  /\ returned' = <<0>>
  /\ UNCHANGED <<idleVars, calls, healthy, platform, console, args, fs, stack, stats, err, faults, tsv>>

---------------------------------------------------------------------------
(* The traversal: one run of main on one tree with one configuration.      *)

\* no first run has been recorded
NotParsed == [called |-> FALSE, threw |-> FALSE, ok |-> FALSE]

NoFirstRun ==
  [done |-> FALSE, emitted |-> {}, folders |-> 0, files |-> 0,
   args |-> DefaultArgs, stats |-> InitStats, out |-> <<>>, err |-> <<>>,
   tsv |-> <<>>]

IdleHarness ==
  /\ mName = <<>>
  /\ mPattern = <<>>
  /\ mResult = [called |-> FALSE, threw |-> FALSE, value |-> FALSE]
  /\ first = NoFirstRun
  /\ wIn = <<>>
  /\ wOut = [calls |-> 0, text |-> <<>>]
  /\ argv = <<>>
  /\ parsed = NotParsed
  /\ returned = <<>>
  /\ calls = <<>>

\* the start of a run; h = the filesystem will answer every query
RunInit(h) ==
  /\ platform \in {"posix", "win32"}
  /\ \E t \in Trees : \E x \in Scenarios(t) :
       /\ x[3] # 0 => platform = "win32"
       /\ args = x[1]
       /\ console = x[2]
       /\ fs = IF platform = "win32" THEN WithAttrs(t, x[3]) ELSE t
  /\ pc = "start"
  /\ stack = <<>>
  /\ stats = InitStats
  /\ out = IF platform = "win32" /\ ~console THEN <<[kind |-> "bom"]>> ELSE <<>>
  /\ err = <<>>
  /\ faults = {}
  /\ healthy = h
  /\ tsv = <<>>
  /\ IdleHarness

Init == RunInit(FALSE)

Next ==
  \/ MainStart
  \/ DepthLimit
  \/ EnumerateThrows
  \/ EnumerateDenied
  \/ Enumerate
  \/ ProcessEntry
  \/ IsDirectoryThrows
  \/ StatusThrows
  \/ Return
  \/ MainExport
  \/ MainExportFails
  \/ MainSummary

Spec == Init /\ [][Next]_vars

---------------------------------------------------------------------------
(* The matcher on its own: one call of matchesPattern on one name and one  *)
(* pattern.                                                                *)

\* the characters of the names and of the patterns handed to the matcher:
\* "a" (97) and, in names, "A", ".", "+", a line feed; in patterns ".", "*",
\* "?", "+", "["
MatchNameChars == {97, chUpperA, chDot, chPlus, chNL}
MatchPatternChars == {97, chDot, chStar, chQuest, chPlus, chLBrack}

MatchNames == SeqsUpTo(MatchNameChars, MaxMatchLen)

\* a "+" written directly after "*" or "+" is left out: whether std::regex
\* accepts a quantifier on a quantifier depends on the library
MatchPatterns ==
  {p \in SeqsUpTo(MatchPatternChars, MaxMatchLen) :
     \A k \in 1..(Len(p) - 1) :
       ~(p[k + 1] = chPlus /\ p[k] \in {chStar, chPlus})}

InitMatch ==
  /\ platform = "posix"
  /\ console = TRUE
  /\ args = DefaultArgs
  /\ fs = <<>>
  /\ pc = "match"
  /\ stack = <<>>
  /\ stats = InitStats
  /\ out = <<>>
  /\ err = <<>>
  /\ faults = {}
  /\ healthy = TRUE
  /\ tsv = <<>>
  /\ mName \in MatchNames
  /\ mPattern \in MatchPatterns
  /\ mResult = [called |-> FALSE, threw |-> FALSE, value |-> FALSE]
  /\ first = NoFirstRun
  /\ wIn = <<>>
  /\ wOut = [calls |-> 0, text |-> <<>>]
  /\ argv = <<>>
  /\ parsed = NotParsed
  /\ returned = <<>>
  /\ calls = <<>>

\* the call matchesPattern(mName, mPattern)
MatchCall ==
  /\ pc = "match" /\ ~mResult.called
  /\ LET m == matchesPattern(mName, mPattern)
     IN mResult' = [called |-> TRUE, threw |-> m.threw, value |-> m.value]
  /\ UNCHANGED <<travVars, mName, mPattern, first, wIn, wOut, argv, parsed,
                 returned, calls>>

NextMatch == MatchCall

SpecMatch == InitMatch /\ [][NextMatch]_vars

---------------------------------------------------------------------------
(* What a run has emitted, read off stdout and stats.csvRows.              *)

\* the nodes of the rows collected so far, in order
RowNodes == [k \in DOMAIN stats.csvRows |-> stats.csvRows[k].node]

\* the entry lines on stdout, in order
EntryLines == SelectSeq(out, LAMBDA l : l.kind = "entry")
CompleteLines == SelectSeq(EntryLines, LAMBDA l : l.complete)

\* the nodes whose line or row has been begun, in order
Shown == RowNodes \o [k \in DOMAIN EntryLines |-> EntryLines[k].node]

\* the nodes whose line or row is complete, in order
Emitted == RowNodes \o [k \in DOMAIN CompleteLines |-> CompleteLines[k].node]

EmittedSet == Range(Emitted)

\* the number of directories and of other entries in a sequence of nodes
DirsIn(s) == Cardinality({k \in DOMAIN s : fs[s[k]].isDir})
FilesIn(s) == Cardinality({k \in DOMAIN s : ~fs[s[k]].isDir})

NoRepeat(s) == \A i, j \in DOMAIN s : s[i] = s[j] => i = j


\* node n is hidden as the run could see it: a dot name, or (Windows) the
\* hidden attribute where the attribute query answered
HiddenEntry(n) ==
  \/ (fs[n].name # <<>> /\ fs[n].name[1] = chDot)
  \/ (platform = "win32" /\ "H" \in fs[n].attrs /\ <<"attrs", n>> \notin faults)

\* node n is removed by none of the three filters of the configuration
PassesFilters(n) ==
  /\ args.showHidden \/ ~HiddenEntry(n)
  /\ args.excludePattern = <<>>
       \/ ~matchesPattern(NarrowName(fs[n].name), args.excludePattern).value
  /\ ~args.showDirsOnly \/ fs[n].isDir

Dirs == {Root} \cup {n \in Nodes : fs[n].isDir}

\* the number of reports of an enumeration failure of directory d
Reports(d) == Cardinality({k \in DOMAIN err : err[k] = EnumError(d)})
FailedDirs == {d \in Dirs : Reports(d) > 0}

\* the listing of directory d neither failed nor was denied
ListedOk(d) == d \notin FailedDirs /\ <<"denied", d>> \notin faults

\* printTree was called for directory d and went past its depth check
Entered(d) ==
  /\ d = Root \/ d \in EmittedSet
  /\ args.maxLevel <= 0 \/ Depth(d) + 1 <= args.maxLevel

\* a comes before b in the pre-order walk that takes the children of every
\* directory in ascending order of their names
PreorderBefore(a, b) ==
  /\ a # b
  /\ \/ a \in Ancestors(b)
     \/ /\ b \notin Ancestors(a)
        /\ LET pa == PathTo(a)
               pb == PathTo(b)
               k == CHOOSE k \in DOMAIN pa \cap DOMAIN pb :
                      /\ pa[k] # pb[k]
                      /\ \A j \in 1..(k - 1) : pa[j] = pb[j]
           IN StrLess(fs[pa[k]].name, fs[pb[k]].name)

\* the path of node n below the root, joined with "/"
RECURSIVE SlashPath(_)
SlashPath(n) ==
  IF fs[n].parent = Root THEN fs[n].name
  ELSE SlashPath(fs[n].parent) \o <<chSlash>> \o fs[n].name

---------------------------------------------------------------------------
(* Two runs on the same tree: the second with -a added to the first's      *)
(* configuration.  The filesystem answers every query in both.             *)

InitPair == RunInit(TRUE) /\ ~args.showHidden

\* what a finished run was started with and what it left behind
FirstRun ==
  [done |-> TRUE, emitted |-> EmittedSet, folders |-> stats.folders,
   files |-> stats.files, args |-> args, stats |-> stats, out |-> out,
   err |-> err, tsv |-> tsv]

\* the first run has ended: what it emitted and counted is kept, and etree
\* is started again on the same tree with showHidden set
RunAgainWithHidden ==
  /\ pc = "done" /\ ~first.done /\ ~args.showHidden
  /\ first' = FirstRun
  /\ args' = [args EXCEPT !.showHidden = TRUE]
  /\ pc' = "start"
  /\ stack' = <<>>
  /\ stats' = InitStats
  /\ out' = IF platform = "win32" /\ ~console THEN <<[kind |-> "bom"]>> ELSE <<>>
  /\ err' = <<>>
  /\ faults' = {}
  /\ tsv' = <<>>
  /\ returned' = <<>>
  /\ calls' = <<>>
  /\ UNCHANGED <<platform, console, fs, healthy, mName, mPattern, mResult, wIn,
                 wOut, argv, parsed>>

NextPair ==
  \/ MainStart
  \/ DepthLimit
  \/ Enumerate
  \/ ProcessEntry
  \/ Return
  \/ MainExport
  \/ MainSummary
  \/ RunAgainWithHidden

SpecPair == InitPair /\ [][NextPair]_vars

\* glob matching as the wildcard patterns are documented: "*" stands for
\* any sequence of characters, "?" for exactly one character, every other
\* character for itself ignoring case, and the pattern covers the whole name
RECURSIVE GlobMatch(_, _)
GlobMatch(name, pattern) ==
  IF pattern = <<>> THEN name = <<>>
  ELSE IF Head(pattern) = chStar
    THEN \/ GlobMatch(name, Tail(pattern))
         \/ (name # <<>> /\ GlobMatch(Tail(name), pattern))
  ELSE /\ name # <<>>
       /\ Head(pattern) = chQuest \/ ToLower(Head(pattern)) = ToLower(Head(name))
       /\ GlobMatch(Tail(name), Tail(pattern))

---------------------------------------------------------------------------
(* Claims.                                                                 *)

\* C1: when a run has ended, stats.folders is the number of emitted
\* directory entries and stats.files the number of emitted non-directory
\* entries: every emitted entry was counted exactly once.
C1_CountsMatchEmitted ==
  pc = "done" =>
    /\ stats.folders = DirsIn(Emitted)
    /\ stats.files = FilesIn(Emitted)
    /\ stats.folders + stats.files = Len(Emitted)
    /\ NoRepeat(Emitted)

\* a finished run that emitted both a directory and a file
C1_Witness ==
  /\ pc = "done"
  /\ \E a, b \in EmittedSet : fs[a].isDir /\ ~fs[b].isDir

\* C2: rows are collected if and only if a TSV export was asked for.  With
\* an export nothing of the tree reaches stdout (no root line, no entry
\* line, no summary) and every counted entry has exactly one row; without
\* one csvRows stays empty and every counted entry has exactly one line.
C2_RowsIffExport ==
  /\ ExportMode =>
       /\ \A k \in DOMAIN out : out[k].kind \notin {"root", "entry", "summary"}
       /\ Len(stats.csvRows) = stats.folders + stats.files
       /\ NoRepeat(RowNodes)
  /\ ~ExportMode =>
       /\ stats.csvRows = <<>>
       /\ Len(CompleteLines) = stats.folders + stats.files
       /\ NoRepeat(Shown)

\* a finished export of at least two entries
C2_Witness ==
  /\ pc = "done" /\ ExportMode
  /\ Len(stats.csvRows) >= 2
  /\ tsv # <<>>

C7_MatcherIsGlob ==
  (mResult.called /\ mPattern # <<>>) =>
    /\ ~mResult.threw
    /\ mResult.value = GlobMatch(mName, mPattern)

\* C8: an empty pattern matches nothing: matchesPattern returns false for
\* every name, the empty name included, and raises no error.
C8_EmptyPatternMatchesNothing ==
  (mResult.called /\ mPattern = <<>>) => (~mResult.threw /\ ~mResult.value)

\* the matcher was called with the empty name and the empty pattern
C8_Witness == mResult.called /\ mPattern = <<>> /\ mName = <<>>

\* C3 (as stated): with maxLevel = k > 0 no entry at a level above k is
\* emitted or counted; with maxLevel = 0 every entry that passes the filters
\* and whose ancestors all pass them is emitted and counted.
C3_AsStated ==
  /\ stats.folders + stats.files = Len(Emitted)
  /\ args.maxLevel > 0 =>
       \A k \in DOMAIN Shown : Depth(Shown[k]) <= args.maxLevel
  /\ (pc = "done" /\ args.maxLevel = 0) =>
       \A n \in Nodes :
         (\A m \in Range(PathTo(n)) : PassesFilters(m)) => n \in EmittedSet

\* C3 (amended): with maxLevel = k > 0 no entry at a level above k is
\* emitted or counted; with maxLevel = 0 every entry that passes the filters,
\* whose ancestors all pass them and whose ancestor directories (the root
\* included) were all listed without failure or denial, is emitted and
\* counted by the end of the run.
C3_DepthLimit ==
  /\ stats.folders + stats.files = Len(Emitted)
  /\ args.maxLevel > 0 =>
       \A k \in DOMAIN Shown : Depth(Shown[k]) <= args.maxLevel
  /\ (pc = "done" /\ args.maxLevel = 0) =>
       \A n \in Nodes :
         (/\ \A m \in Range(PathTo(n)) : PassesFilters(m)
          /\ \A d \in {Root} \cup Ancestors(n) : ListedOk(d))
           => n \in EmittedSet

\* an unlimited run has ended; one directory was emitted but could not be
\* listed, so its child is missing, and another entry was emitted
C3_Witness ==
  /\ pc = "done" /\ args.maxLevel = 0
  /\ \E d \in EmittedSet :
       /\ ~ListedOk(d)
       /\ \E c \in Children(d) : PassesFilters(c) /\ c \notin EmittedSet
       /\ \E n \in EmittedSet : n # d

\* C4: entries are emitted in pre-order, the children of every directory in
\* ascending order of their names compared character code by character
\* code: a directory comes before everything below it, its subtree comes
\* before its next sibling, and no entry is emitted before its parent.
C4_PreorderByName ==
  /\ \A i, j \in DOMAIN Shown : i < j => PreorderBefore(Shown[i], Shown[j])
  /\ \A i \in DOMAIN Shown :
       \/ fs[Shown[i]].parent = Root
       \/ \E j \in 1..(i - 1) : Shown[j] = fs[Shown[i]].parent

C9_RelpathSlashJoined ==
  \A k \in DOMAIN stats.csvRows :
    LET row == stats.csvRows[k]
    IN /\ row.relpath = SlashPath(row.node)
       /\ row.relpath # <<>> => row.relpath[1] # chSlash

\* C10: a directory whose enumeration fails (the listing throws, or the
\* directory cannot be opened) is reported exactly once on stderr and
\* contributes no child; its own line or row and its count stay; the
\* failure does not end the run: every child of every ancestor that passes
\* the filters is still emitted, and the run ends with its summary or with
\* its export.
C10_EnumerationFailure ==
  \A d \in Dirs :
    (<<"list", d>> \in faults \/ <<"denied", d>> \in faults \/ d \in FailedDirs)
      => /\ Reports(d) = 1
         /\ pc # "aborted"
         /\ \A n \in Range(Shown) : fs[n].parent # d
         /\ d # Root => d \in EmittedSet
         /\ stats.folders = DirsIn(Emitted)
         /\ pc = "done" =>
              /\ \A a \in Range(PathTo(d)) :
                   \A c \in Children(fs[a].parent) :
                     PassesFilters(c) => c \in EmittedSet
              /\ IF ExportMode
                   THEN tsv = writeTsv(stats) \/ <<"open", Root>> \in faults
                   ELSE out[Len(out)].kind = "summary"

\* C11: no failing filesystem query of the traversal ends the run: whatever
\* queries fail, the process is never terminated inside printTree.
C11_NoQueryFailureIsFatal == pc # "aborted"

\* C12: the size in a row and in the size suffix of a line is 0 for a
\* directory, the file's byte length for a file whose size query succeeded
\* and 0 for a file whose size query failed; an entry whose size query
\* failed (and no other query) is emitted and counted all the same, and by
\* the end of the run every sibling that passes the filters has been
\* emitted.
C12_SizeOrZero ==
  LET size(n) == IF fs[n].isDir \/ <<"size", n>> \in faults THEN 0
                 ELSE fs[n].bytes
  IN /\ \A k \in DOMAIN stats.csvRows :
          stats.csvRows[k].bytes = size(stats.csvRows[k].node)
     /\ \A k \in DOMAIN CompleteLines :
          args.showSize =>
            /\ Len(CompleteLines[k].size) = 1
            /\ CompleteLines[k].size[1].bytes = size(CompleteLines[k].node)
     /\ \A n \in Nodes :
          (<<"size", n>> \in faults /\ <<"status", n>> \notin faults) =>
            /\ n \in EmittedSet
            /\ stats.files = FilesIn(Emitted)
            /\ pc = "done" =>
                 \A c \in Children(fs[n].parent) :
                   PassesFilters(c) => c \in EmittedSet

\* a finished run in which the size query of a file failed, the file was
\* emitted with size 0 and a later sibling, a file with its size, followed
C12_Witness ==
  /\ pc = "done"
  /\ ExportMode \/ args.showSize
  /\ \E n \in EmittedSet :
       /\ <<"size", n>> \in faults
       /\ \E c \in EmittedSet :
            /\ fs[c].parent = fs[n].parent /\ ~fs[c].isDir
            /\ StrLess(SortKey(n), SortKey(c))

---------------------------------------------------------------------------
(* wrap_rtl on its own: the shaper applied to one string, and once more to *)
(* its result.                                                             *)

\* the characters of the strings: two Arabic letters (U+0627, U+0628), the
\* space and "a"
WrapChars == {1575, 1576, chSpace, 97}

InitWrap ==
  /\ platform = "win32"
  /\ console = TRUE
  /\ args = DefaultArgs
  /\ fs = <<>>
  /\ pc = "wrap"
  /\ stack = <<>>
  /\ stats = InitStats
  /\ out = <<>>
  /\ err = <<>>
  /\ faults = {}
  /\ healthy = TRUE
  /\ tsv = <<>>
  /\ mName = <<>>
  /\ mPattern = <<>>
  /\ mResult = [called |-> FALSE, threw |-> FALSE, value |-> FALSE]
  /\ first = NoFirstRun
  /\ wIn \in SeqsUpTo(WrapChars, MaxWrapLen)
  /\ wOut = [calls |-> 0, text |-> <<>>]
  /\ argv = <<>>
  /\ parsed = NotParsed
  /\ returned = <<>>
  /\ calls = <<>>

\* wrap_rtl(wIn), then wrap_rtl of what that returned
WrapCall ==
  /\ pc = "wrap" /\ wOut.calls < 2
  /\ wOut' = [calls |-> wOut.calls + 1,
              text |-> wrap_rtl(IF wOut.calls = 0 THEN wIn ELSE wOut.text)]
  /\ UNCHANGED <<travVars, mName, mPattern, mResult, first, wIn, argv, parsed,
                 returned, calls>>

NextWrap == WrapCall

SpecWrap == InitWrap /\ [][NextWrap]_vars

\* C13: wrap_rtl is an involution: applied to its own result it gives the
\* original string back, for every string of RTL characters, spaces and
\* other characters.
C13_WrapTwiceIsIdentity == wOut.calls = 2 => wOut.text = wIn

\* C14: wrap_rtl leaves every non-RTL character, spaces included, at the
\* index it had in the input.
C14_NonRtlStaysInPlace ==
  wOut.calls = 1 =>
    /\ Len(wOut.text) = Len(wIn)
    /\ \A k \in DOMAIN wIn : ~is_arabic(wIn[k]) => wOut.text[k] = wIn[k]

---------------------------------------------------------------------------
(* The export read back: a POSIX run with -o over names that hold a tab or *)
(* a line feed, which a POSIX file name may.                               *)

\* "a", "a<TAB>b" and "b<LF>"
TsvNames == {<<97>>, <<97, chTab, 98>>, <<98, chNL>>}

InitTsv ==
  /\ platform = "posix"
  /\ console = TRUE
  /\ args = [DefaultArgs EXCEPT !.csvOut = CsvFile]
  /\ fs \in UNION {TreesOver(TsvNames, n) : n \in 0..MaxNodes}
  /\ pc = "start"
  /\ stack = <<>>
  /\ stats = InitStats
  /\ out = <<>>
  /\ err = <<>>
  /\ faults = {}
  /\ healthy = TRUE
  /\ tsv = <<>>
  /\ IdleHarness

NextTsv ==
  \/ MainStart
  \/ Enumerate
  \/ ProcessEntry
  \/ Return
  \/ MainExport

SpecTsv == InitTsv /\ [][NextTsv]_vars

\* the pieces of `items` between the occurrences of `sep`
RECURSIVE SplitOn(_, _)
SplitOn(items, sep) ==
  IF \A k \in DOMAIN items : items[k] # sep THEN <<items>>
  ELSE LET i == CHOOSE k \in DOMAIN items :
                  items[k] = sep /\ \A j \in 1..(k - 1) : items[j] # sep
       IN <<SubSeq(items, 1, i - 1)>>
            \o SplitOn(SubSeq(items, i + 1, Len(items)), sep)

\* a reader of the file: the lines after the header line, each split at its
\* tabs (what follows the last line feed is not a line)
ReadTsv(file) ==
  LET pieces == SplitOn(file, [ch |-> chNL])
      lines == SubSeq(pieces, 2, Len(pieces) - 1)
  IN [k \in DOMAIN lines |-> SplitOn(lines[k], [ch |-> chTab])]

\* C15: the file written by writeTsv, split into lines after the header and
\* each line into tab-separated fields, gives back the relative path, name,
\* type, size and permissions of every row, in order.
C15_ExportReadsBack ==
  tsv # <<>> =>
    LET read == ReadTsv(tsv)
    IN /\ Len(read) = Len(stats.csvRows)
       /\ \A k \in DOMAIN stats.csvRows :
            /\ Len(read[k]) = 7
            /\ read[k][1] = TsvChars(stats.csvRows[k].relpath)
            /\ read[k][2] = TsvChars(stats.csvRows[k].name)
            /\ read[k][3] = TsvWord(stats.csvRows[k].type)
            /\ read[k][4] = <<[num |-> stats.csvRows[k].bytes]>>
            /\ read[k][7] = TsvPerms(stats.csvRows[k].perms)


\* C16: a file writeTsv could open holds the byte-order mark, then the
\* header line with the seven column titles in order, then one line per
\* element of stats.csvRows in the order of csvRows; the lines are as many
\* as stats.folders + stats.files and the Type field of each is "file" or
\* "folder".
C16_FileLayout ==
  tsv # <<>> =>
    LET read == ReadTsv(tsv)
        header == SplitOn(SplitOn(Tail(tsv), [ch |-> chNL])[1], [ch |-> chTab])
    IN /\ Head(tsv) = [text |-> "BOM"]
       /\ header = <<TsvWord("Relative Path"), TsvWord("Name"), TsvWord("Type"),
                     TsvWord("Size (bytes)"), TsvWord("Created"),
                     TsvWord("Modified"), TsvWord("Permissions")>>
       /\ Len(read) = Len(stats.csvRows)
       /\ Len(read) = stats.folders + stats.files
       /\ \A k \in DOMAIN read :
            /\ Len(read[k]) = 7
            /\ read[k][1] = TsvChars(stats.csvRows[k].relpath)
            /\ read[k][2] = TsvChars(stats.csvRows[k].name)
            /\ read[k][3] \in {TsvWord("file"), TsvWord("folder")}
            /\ read[k][3] = TsvWord(stats.csvRows[k].type)
       /\ tsv[Len(tsv)] = [ch |-> chNL]

C16_Witness ==
  /\ tsv # <<>>
  /\ \E j, k \in DOMAIN stats.csvRows :
       /\ j < k
       /\ stats.csvRows[j].type = "folder"
       /\ stats.csvRows[k].type = "file"
       /\ stats.csvRows[k].relpath # stats.csvRows[k].name

---------------------------------------------------------------------------
(* The documented example: a root holding folder "a" (with the file        *)
(* "f.txt") and the file "b.tmp", run with and without the exclude pattern *)
(* "*.tmp", with and without -o, on a console or redirected, the root      *)
(* given as "." or as "r.tmp".                                             *)

NameA == <<97>>
NameBTmp == <<98, chDot, 116, 109, 112>>
NameFTxt == <<102, chDot, 116, 120, 116>>
PatStarDotTmp == <<chStar, chDot, 116, 109, 112>>
\* the root directory is "." or a directory named "r.tmp"
NameRTmp == <<114, chDot, 116, 109, 112>>

\* node 1 is a, node 2 is b.tmp, node 3 is a/f.txt
ExampleTree ==
  <<Node(Root, NameA, TRUE, {}), Node(Root, NameBTmp, FALSE, {}),
    Node(1, NameFTxt, FALSE, {})>>

InitExample ==
  /\ platform \in {"posix", "win32"}
  /\ console \in BOOLEAN
  /\ \E p \in {PatNone, PatStarDotTmp} : \E o \in {<<>>, CsvFile} :
       \E r \in {<<chDot>>, NameRTmp} :
         args = [DefaultArgs EXCEPT !.excludePattern = p, !.csvOut = o,
                                    !.folder = r]
  /\ fs = IF platform = "win32" THEN WithAttrs(ExampleTree, 0) ELSE ExampleTree
  /\ pc = "start"
  /\ stack = <<>>
  /\ stats = InitStats
  /\ out = IF platform = "win32" /\ ~console THEN <<[kind |-> "bom"]>> ELSE <<>>
  /\ err = <<>>
  /\ faults = {}
  /\ healthy = TRUE
  /\ tsv = <<>>
  /\ IdleHarness

NextExample ==
  \/ MainStart
  \/ Enumerate
  \/ ProcessEntry
  \/ Return
  \/ MainExport
  \/ MainSummary

SpecExample == InitExample /\ [][NextExample]_vars

\* C17: on the example tree a finished run without exclude pattern has
\* emitted a, then f.txt one indentation deeper, then b.tmp, and counts 2
\* layers, 1 folder and 2 files, which is what its summary line says; with
\* the exclude pattern "*.tmp" no line or row of b.tmp is ever written and
\* the finished run has emitted a and f.txt and counts 1 folder and 1 file.
C17_Example ==
  /\ args.excludePattern = PatStarDotTmp => 2 \notin Range(Shown)
  /\ pc = "done" =>
       LET n == IF args.excludePattern = PatNone THEN 2 ELSE 1
       IN /\ Emitted = IF n = 2 THEN <<1, 3, 2>> ELSE <<1, 3>>
          /\ stats.maxDepth = 2 /\ stats.folders = 1 /\ stats.files = n
          /\ ~ExportMode =>
               /\ out[Len(out)] = [kind |-> "summary", maxDepth |-> 2,
                                   folders |-> 1, files |-> n]
               /\ Len(EntryLines[2].prefix) > Len(EntryLines[1].prefix)
               /\ n = 2 => EntryLines[3].prefix = EntryLines[1].prefix

\* the run of the example with the pattern that prints the tree has ended
C17_Witness ==
  /\ pc = "done" /\ ~ExportMode /\ fs = ExampleTree
  /\ args.excludePattern = PatStarDotTmp
  /\ Len(EntryLines) = 2


\* the positions of the root's line on stdout
RootLines == {k \in DOMAIN out : out[k].kind = "root"}

\* C18: the root is traversed whatever its name (a name that starts with
\* "." or matches the exclude pattern included), has no row, is not counted
\* in stats.folders, and a run that prints the tree writes its line exactly
\* once, before every entry line; an export writes no root line.
C18_RootHandling ==
  /\ pc = "done" => 1 \in EmittedSet
  /\ RowNodes \in Seq(Nodes) /\ NoRepeat(RowNodes)
  /\ \A k \in DOMAIN stats.csvRows :
       stats.csvRows[k].relpath # <<>> /\ stats.csvRows[k].name # args.folder
  /\ stats.folders <= Cardinality({n \in Nodes : fs[n].isDir})
  /\ ExportMode => RootLines = {}
  /\ (~ExportMode /\ pc # "start") =>
       /\ Cardinality(RootLines) = 1
       /\ \A r \in RootLines : out[r].name = args.folder
       /\ \A r \in RootLines : \A k \in DOMAIN out :
            out[k].kind = "entry" => r < k

\* a finished run that printed the tree of a root whose name matches the
\* exclude pattern
C18_Witness ==
  /\ pc = "done" /\ ~ExportMode
  /\ matchesPattern(NarrowName(args.folder), args.excludePattern).value
  /\ Len(EntryLines) = 2

---------------------------------------------------------------------------
(* Two runs on the same tree: the first with a maxLevel other than 0, the  *)
(* second with maxLevel = 0 and nothing else changed.  The filesystem      *)
(* answers every query in both.                                            *)

InitLevels == RunInit(TRUE) /\ args.maxLevel # 0

\* the first run has ended: what it wrote and counted is kept, and etree is
\* started again on the same tree with maxLevel = 0
RunAgainUnlimited ==
  /\ pc = "done" /\ ~first.done
  /\ first' = FirstRun
  /\ args' = [first'.args EXCEPT !.maxLevel = 0,
                                 !.nocolors = DefaultArgs.nocolors]
  /\ pc' = "start"
  /\ stack' = <<>>
  /\ stats' = InitStats
  /\ out' = IF platform = "win32" /\ ~console THEN <<[kind |-> "bom"]>> ELSE <<>>
  /\ err' = <<>>
  /\ faults' = {}
  /\ tsv' = <<>>
  /\ returned' = <<>>
  /\ calls' = <<>>
  /\ UNCHANGED <<platform, console, fs, healthy, mName, mPattern, mResult, wIn,
                 wOut, argv, parsed>>

NextLevels ==
  \/ MainStart
  \/ DepthLimit
  \/ Enumerate
  \/ ProcessEntry
  \/ Return
  \/ MainExport
  \/ MainSummary
  \/ RunAgainUnlimited

SpecLevels == InitLevels /\ [][NextLevels]_vars

\* C19: of two finished runs on the same tree that differ only in maxLevel,
\* the first negative and the second 0, the first has emitted and counted
\* the same entries in the same order as the second (its stdout, its rows
\* and its counts are the same) and has reported no error.
C19_NegativeIsUnlimited ==
  (first.done /\ first.args.maxLevel < 0 /\ pc = "done") =>
    /\ first.out = out
    /\ first.stats = stats
    /\ first.tsv = tsv
    /\ first.err = <<>> /\ err = <<>>

\* both runs have ended, the first with a negative maxLevel, and an entry
\* at level 2 was emitted
C19_Witness ==
  /\ first.done /\ first.args.maxLevel < 0 /\ pc = "done"
  /\ \E n \in EmittedSet : Depth(n) = 2

---------------------------------------------------------------------------
(* parseArgs on its own: a command line of a few arguments handed to       *)
(* parseArgs with a freshly constructed Args.                              *)

chZero == 48
chNine == 57

\* the longest command line after the program name
MaxArgs == 3

OptVersion == <<chMinus, 118>>
OptLongVersion == <<chMinus, chMinus, 118, 101, 114, 115, 105, 111, 110>>
OptHelp == <<chMinus, chQuest>>
OptLongHelp == <<chMinus, chMinus, 104, 101, 108, 112>>
OptNoColors == <<chMinus, 110, 99>>
OptOut == <<chMinus, 111>>
OptLevel == <<chMinus, 108>>
OptExclude == <<chMinus, 73>>

\* arg.rfind(opt, 0) == 0
StartsWith(arg, opt) ==
  Len(arg) >= Len(opt) /\ SubSeq(arg, 1, Len(opt)) = opt

IsDigit(c) == c >= chZero /\ c <= chNine

\* the value of a string of decimal digits
RECURSIVE DigitsValue(_)
DigitsValue(ds) ==
  IF ds = <<>> THEN 0
  ELSE 10 * DigitsValue(SubSeq(ds, 1, Len(ds) - 1)) + (ds[Len(ds)] - chZero)

\* std::stoi(str): an optional sign and the longest run of digits after it;
\* std::invalid_argument where there is no digit to convert
Stoi(str) ==
  LET signed == str # <<>> /\ str[1] \in {chMinus, chPlus}
      body == IF signed THEN Tail(str) ELSE str
      n == Cardinality({k \in DOMAIN body :
                          \A j \in 1..k : IsDigit(body[j])})
      v == DigitsValue(SubSeq(body, 1, n))
  IN [threw |-> n = 0,
      value |-> IF signed /\ str[1] = chMinus THEN 0 - v ELSE v]

\* the switch over the characters of a combined short option, from the
\* j-th character on: <<the Args, whether an unknown character was met>>
RECURSIVE ShortOptions(_, _, _)
ShortOptions(arg, j, a) ==
  IF j > Len(arg) THEN <<a, FALSE>>
  ELSE LET c == arg[j]
           b == IF c = 100 THEN [a EXCEPT !.showDirsOnly = TRUE]
                ELSE IF c = 97 THEN [a EXCEPT !.showHidden = TRUE]
                ELSE IF c = 115 THEN [a EXCEPT !.showSize = TRUE]
                ELSE IF c = 112 THEN [a EXCEPT !.showPerms = TRUE]
                ELSE a
           rest == ShortOptions(arg, j + 1, b)
       IN <<rest[1], rest[2] \/ c \notin {100, 97, 115, 112, 108, 73, 111}>>

\* the loop of parseArgs from argv[i] on, with the Args and foundUnknown as
\* they are at the head of that iteration
RECURSIVE ParseFrom(_, _, _, _)
ParseFrom(av, i, a, foundUnknown) ==
  IF i > Len(av) THEN [args |-> a, ok |-> ~foundUnknown, threw |-> FALSE]
  ELSE
    LET next == IF i + 1 <= Len(av) THEN av[i + 1] ELSE <<>>
        arg == IF Len(av[i]) > 1 /\ av[i][1] = chSlash
                 THEN <<chMinus>> \o Tail(av[i]) ELSE av[i]
    IN IF arg \in {OptVersion, OptLongVersion}
         THEN [args |-> [a EXCEPT !.showVersion = TRUE], ok |-> TRUE,
               threw |-> FALSE]
       ELSE IF arg \in {OptHelp, OptLongHelp}
         THEN [args |-> [a EXCEPT !.showHelp = TRUE], ok |-> TRUE,
               threw |-> FALSE]
       ELSE IF arg = OptNoColors
         THEN ParseFrom(av, i + 1, [a EXCEPT !.nocolors = TRUE], foundUnknown)
       ELSE IF arg = OptOut /\ next # <<>>
         THEN ParseFrom(av, i + 2, [a EXCEPT !.csvOut = next], foundUnknown)
       ELSE IF StartsWith(arg, OptLevel)
         THEN IF Len(arg) > 2
                THEN LET n == Stoi(SubSeq(arg, 3, Len(arg)))
                     IN IF n.threw
                          THEN [args |-> a, ok |-> FALSE, threw |-> TRUE]
                          ELSE ParseFrom(av, i + 1,
                                         [a EXCEPT !.maxLevel = n.value],
                                         foundUnknown)
              ELSE IF next # <<>> /\ IsDigit(next[1])
                THEN ParseFrom(av, i + 2,
                               [a EXCEPT !.maxLevel = Stoi(next).value],
                               foundUnknown)
              ELSE ParseFrom(av, i + 1, [a EXCEPT !.maxLevel = 1],
                             foundUnknown)
       ELSE IF StartsWith(arg, OptExclude)
         THEN IF Len(arg) > 2
                THEN ParseFrom(av, i + 1,
                               [a EXCEPT !.excludePattern =
                                           SubSeq(arg, 3, Len(arg))],
                               foundUnknown)
              ELSE IF next # <<>>
                THEN ParseFrom(av, i + 2, [a EXCEPT !.excludePattern = next],
                               foundUnknown)
              ELSE ParseFrom(av, i + 1, a, foundUnknown)
       ELSE IF Len(arg) >= 2 /\ arg[1] = chMinus
         THEN LET r == ShortOptions(arg, 2, a)
              IN ParseFrom(av, i + 1, r[1], foundUnknown \/ r[2])
       ELSE IF a.folder = <<chDot>>
         THEN ParseFrom(av, i + 1, [a EXCEPT !.folder = arg], foundUnknown)
       ELSE ParseFrom(av, i + 1, a, TRUE)

parseArgs(av, a) == ParseFrom(av, 1, a, FALSE)

\* the arguments of the command lines: -a, -nc, -o, -l, -l2, -lx, -I, -v,
\* -x, /a, and the words "d", "/d", "." and "2"
ArgWords ==
  {<<chMinus, 97>>, OptNoColors, OptOut, OptLevel, <<chMinus, 108, 50>>,
   <<chMinus, 108, 120>>, OptExclude, OptVersion, <<chMinus, 120>>,
   <<chSlash, 97>>, <<100>>, <<chSlash, 100>>, <<chDot>>, <<50>>}

InitArgs ==
  /\ platform \in {"posix", "win32"}
  /\ console = TRUE
  /\ args = DefaultArgs
  /\ fs = <<>>
  /\ pc = "parse"
  /\ stack = <<>>
  /\ stats = InitStats
  /\ out = <<>>
  /\ err = <<>>
  /\ faults = {}
  /\ healthy = TRUE
  /\ tsv = <<>>
  /\ mName = <<>>
  /\ mPattern = <<>>
  /\ mResult = [called |-> FALSE, threw |-> FALSE, value |-> FALSE]
  /\ first = NoFirstRun
  /\ wIn = <<>>
  /\ wOut = [calls |-> 0, text |-> <<>>]
  /\ argv \in SeqsUpTo(ArgWords, MaxArgs)
  /\ parsed = NotParsed
  /\ returned = <<>>
  /\ calls = <<>>

\* main: Args args; parseArgs(argc, argv, args)
ParseCall ==
  /\ pc = "parse" /\ ~parsed.called
  /\ LET r == parseArgs(argv, args)
     IN /\ args' = r.args
        /\ parsed' = [called |-> TRUE, threw |-> r.threw, ok |-> r.ok]
  /\ UNCHANGED <<platform, console, fs, pc, stack, stats, out, err, faults,
                 healthy, tsv, mName, mPattern, mResult, first, wIn, wOut,
                 argv, returned, calls>>

NextArgs == ParseCall

SpecArgs == InitArgs /\ [][NextArgs]_vars

\* the arguments that are the value of a -o, -l or -I before them
RECURSIVE ValuesFrom(_, _)
ValuesFrom(av, i) ==
  IF i >= Len(av) THEN {}
  ELSE IF \/ av[i] \in {OptOut, OptExclude}
          \/ (av[i] = OptLevel /\ av[i + 1] # <<>> /\ IsDigit(av[i + 1][1]))
    THEN {i + 1} \cup ValuesFrom(av, i + 2)
  ELSE ValuesFrom(av, i + 1)

\* the arguments that do not start with "-" and are no option's value
Positionals(av) ==
  {i \in DOMAIN av : av[i] = <<>> \/ av[i][1] # chMinus} \ ValuesFrom(av, 1)

\* the options parseArgs knows, on their own or with their value
KnownOptions ==
  {<<chMinus, 97>>, OptNoColors, OptOut, OptLevel, <<chMinus, 108, 50>>,
   OptExclude}

\* C20: when exactly one argument neither starts with "-" nor is the value
\* of -o, -l or -I, parseArgs stores it unchanged in args.folder, and
\* returns true when every other argument is an option it knows: the
\* argument is not reported as unknown, an absolute path included.
C20_PositionalIsFolder ==
  (parsed.called /\ Cardinality(Positionals(argv)) = 1) =>
    LET p == CHOOSE i \in Positionals(argv) : TRUE
    IN /\ ~parsed.threw => args.folder = argv[p]
       /\ (\A i \in DOMAIN argv \ ({p} \cup ValuesFrom(argv, 1)) :
             argv[i] \in KnownOptions) => (~parsed.threw /\ parsed.ok)


\* C21: a command line with two or more positional directory arguments is
\* rejected whatever their values, "." as the first one included:
\* parseArgs returns false.
C21_OneDirectoryOnly ==
  (parsed.called /\ Cardinality(Positionals(argv)) >= 2) => ~parsed.ok

\* an argument that is a group of short options with a character that is
\* none of d, a, s, p, l, I, o
HasUnknownOption(arg) ==
  /\ Len(arg) >= 2 /\ arg[1] = chMinus
  /\ arg \notin {OptVersion, OptLongVersion, OptHelp, OptLongHelp, OptNoColors}
  /\ ~StartsWith(arg, OptLevel) /\ ~StartsWith(arg, OptExclude)
  /\ \E j \in 2..Len(arg) : arg[j] \notin {100, 97, 115, 112, 108, 73, 111}

\* C22: parseArgs returns true only if every argument was recognized: when
\* an argument that is no option's value holds an unknown option character,
\* parseArgs returns false whatever follows it, -v, --version, -? and
\* --help included.
C22_UnknownMeansFalse ==
  (parsed.called /\ \E i \in DOMAIN argv \ ValuesFrom(argv, 1) :
                      HasUnknownOption(argv[i]))
    => ~parsed.ok

---------------------------------------------------------------------------
(* main from its first statement: parseArgs on the command line, then the  *)
(* rejection, the version, the help or the run.  The filesystem answers    *)
(* every query.                                                            *)

\* the arguments of the command lines: -a, -x, -v, -?, -o, -l1, "." and
\* "o.t"
MainWords ==
  {<<chMinus, 97>>, <<chMinus, 120>>, OptVersion, OptHelp, OptOut,
   <<chMinus, 108, 49>>, <<chDot>>, CsvFile}

InitMain ==
  /\ platform \in {"posix", "win32"}
  /\ console \in BOOLEAN
  /\ args = DefaultArgs
  /\ \E t \in UNION {TreesOver(Names, n) : n \in 0..(MaxNodes - 1)} :
       fs = IF platform = "win32" THEN WithAttrs(t, 0) ELSE t
  /\ pc = "parse"
  /\ stack = <<>>
  /\ stats = InitStats
  /\ out = <<>>
  /\ err = <<>>
  /\ faults = {}
  /\ healthy = TRUE
  /\ tsv = <<>>
  /\ mName = <<>>
  /\ mPattern = <<>>
  /\ mResult = [called |-> FALSE, threw |-> FALSE, value |-> FALSE]
  /\ first = NoFirstRun
  /\ wIn = <<>>
  /\ wOut = [calls |-> 0, text |-> <<>>]
  /\ argv \in SeqsUpTo(MainWords, MaxArgs - 1)
  /\ parsed = NotParsed
  /\ returned = <<>>
  /\ calls = <<>>

\* main: parseArgs, then (Windows, stdout redirected) the byte-order mark
MainParse ==
  /\ pc = "parse"
  /\ LET r == parseArgs(argv, args)
     IN /\ args' = r.args
        /\ parsed' = [called |-> TRUE, threw |-> r.threw, ok |-> r.ok]
        /\ pc' = IF r.threw THEN "aborted" ELSE "parsed"
        /\ out' = IF ~r.threw /\ platform = "win32" /\ ~console
                    THEN <<[kind |-> "bom"]>> ELSE out
  /\ UNCHANGED <<platform, console, fs, stack, stats, err, faults, healthy,
                 tsv, mName, mPattern, mResult, first, wIn, wOut, argv,
                 returned, calls>>

\* main returning 0 where it reports invalid arguments
MainInvalidReturnsZero ==
  /\ pc = "parsed" /\ ~parsed.ok
  /\ err' = Append(err, [dir |-> Root, what |-> "Unknown or invalid argument(s)"])
  /\ pc' = "rejected"
  /\ returned' = <<0>>
  /\ UNCHANGED <<platform, console, args, fs, stack, stats, out, faults,
                 healthy, tsv, idleVars, calls>>

\* main: !argsOK: the error and the usage on stderr, return 1
MainInvalid ==
  /\ pc = "parsed" /\ ~parsed.ok
  /\ err' = Append(err, [dir |-> Root, what |-> "Unknown or invalid argument(s)"])
  /\ pc' = "rejected"
  /\ returned' = <<1>>
  /\ UNCHANGED <<platform, console, args, fs, stack, stats, out, faults,
                 healthy, tsv, idleVars, calls>>

\* main: args.showVersion: the version line, return 0
MainVersion ==
  /\ pc = "parsed" /\ parsed.ok /\ args.showVersion
  /\ out' = Append(out, [kind |-> "version"])
  /\ pc' = "version"
  /\ returned' = <<0>>
  /\ UNCHANGED <<platform, console, args, fs, stack, stats, err, faults,
                 healthy, tsv, idleVars, calls>>

\* main: args.showHelp: the usage, return 0
MainHelp ==
  /\ pc = "parsed" /\ parsed.ok /\ ~args.showVersion /\ args.showHelp
  /\ out' = Append(out, [kind |-> "usage"])
  /\ pc' = "help"
  /\ returned' = <<0>>
  /\ UNCHANGED <<platform, console, args, fs, stack, stats, err, faults,
                 healthy, tsv, idleVars, calls>>

\* main goes on to the traversal
MainRun ==
  /\ pc = "parsed" /\ parsed.ok /\ ~args.showVersion /\ ~args.showHelp
  /\ pc' = "start"
  /\ UNCHANGED <<platform, console, args, fs, stack, stats, out, err, faults,
                 healthy, tsv, harnessVars>>

NextMain ==
  \/ MainParse
  \/ MainInvalid
  \/ MainVersion
  \/ MainHelp
  \/ MainRun
  \/ MainStart
  \/ DepthLimit
  \/ Enumerate
  \/ ProcessEntry
  \/ Return
  \/ MainExport
  \/ MainSummary

SpecMain == InitMain /\ [][NextMain]_vars

---------------------------------------------------------------------------
\* node n is the last element of the sorted list of its directory: no
\* sibling that passes the filters sorts after it
IsLastSibling(n) ==
  \A c \in Children(fs[n].parent) :
    PassesFilters(c) => ~StrLess(SortKey(n), SortKey(c))

\* the prefix of the lines of the children of directory d, with `last` and
\* `mid` as the two extensions
RECURSIVE PrefixBelow(_, _, _)
PrefixBelow(d, last, mid) ==
  IF d = Root THEN <<>>
  ELSE PrefixBelow(fs[d].parent, last, mid)
         \o (IF IsLastSibling(d) THEN last ELSE mid)

\* C24 (as stated): every entry line is the prefix of its directory and
\* then the glyph U+2514 U+2500 U+2500 " " for the last of the sorted
\* siblings and U+251C U+2500 U+2500 " " for the others; the prefix below a
\* subdirectory is its parent's prefix and four spaces when the
\* subdirectory was last, U+2502 and three spaces otherwise, and the prefix
\* of the root's children is empty.
C24_AsStated ==
  \A k \in DOMAIN EntryLines :
    LET l == EntryLines[k]
    IN /\ l.branch = IF IsLastSibling(l.node)
                       THEN <<9492, 9472, 9472, chSpace>>
                       ELSE <<9500, 9472, 9472, chSpace>>
       /\ l.prefix = PrefixBelow(fs[l.node].parent, IndentLast,
                                 <<9474, chSpace, chSpace, chSpace>>)

\* C24 (amended): every entry line is the prefix of its directory and then
\* "`-- " for the last of the sorted siblings and "|-- " for the others;
\* the prefix below a subdirectory is its parent's prefix and four spaces
\* when the subdirectory was last, "|" and three spaces otherwise, and the
\* prefix of the root's children is empty.
C24_TreeDrawing ==
  \A k \in DOMAIN EntryLines :
    LET l == EntryLines[k]
    IN /\ l.branch = IF IsLastSibling(l.node)
                       THEN <<chBacktick, chMinus, chMinus, chSpace>>
                       ELSE <<chBar, chMinus, chMinus, chSpace>>
       /\ l.prefix = PrefixBelow(fs[l.node].parent, IndentLast, IndentMid)

\* a line of a last child below a directory that was not the last of its
\* siblings
C24_Witness ==
  \E k \in DOMAIN EntryLines :
    LET n == EntryLines[k].node
    IN /\ fs[n].parent # Root
       /\ IsLastSibling(n) /\ ~IsLastSibling(fs[n].parent)
       /\ EntryLines[k].prefix = IndentMid


\* C25: from one step of a run to the next stats.maxDepth, stats.folders,
\* stats.files and the length of stats.csvRows never decrease, and the
\* rows already in csvRows stay as they are.
C25_StatsMonotone ==
  [][/\ stats'.maxDepth >= stats.maxDepth
     /\ stats'.folders >= stats.folders
     /\ stats'.files >= stats.files
     /\ Len(stats'.csvRows) >= Len(stats.csvRows)
     /\ SubSeq(stats'.csvRows, 1, Len(stats.csvRows)) = stats.csvRows]_vars

\* a finished run that went two levels deep and collected two rows
C25_Witness ==
  pc = "done" /\ stats.maxDepth >= 2 /\ Len(stats.csvRows) >= 2


\* C26: "-l2" and "-l 2" both set args.maxLevel to 2, the second form
\* taking "2" so that it is not the directory; "-l" alone sets it to 1; and
\* no command line with an argument that begins with "-l" makes parseArgs
\* raise an error.
C26_LevelOption ==
  parsed.called =>
    /\ (\E i \in DOMAIN argv \ ValuesFrom(argv, 1) :
          StartsWith(argv[i], OptLevel)) => ~parsed.threw
    /\ argv = <<OptLevel \o <<50>>>> => (parsed.ok /\ args.maxLevel = 2)
    /\ argv = <<OptLevel, <<50>>>> =>
         (parsed.ok /\ args.maxLevel = 2 /\ args.folder = DefaultArgs.folder)
    /\ argv = <<OptLevel>> => (parsed.ok /\ args.maxLevel = 1)

---------------------------------------------------------------------------
(* Two runs on the same tree with the same configuration: each takes the   *)
(* children of every directory in whatever order the filesystem hands them *)
(* out.  The filesystem answers every query in both.                       *)

InitOrder == RunInit(TRUE)

\* the first run has ended: what it wrote and counted is kept, and etree is
\* started again on the same tree with the same options
RunAgainSame ==
  /\ pc = "done" /\ ~first.done
  /\ first' = FirstRun
  /\ pc' = "start"
  /\ stack' = <<>>
  /\ stats' = InitStats
  /\ out' = IF platform = "win32" /\ ~console THEN <<[kind |-> "bom"]>> ELSE <<>>
  /\ err' = <<>>
  /\ faults' = {}
  /\ tsv' = <<>>
  /\ returned' = <<>>
  /\ calls' = <<>>
  /\ UNCHANGED <<platform, console, args, fs, healthy, mName, mPattern,
                 mResult, wIn, wOut, argv, parsed>>

NextOrder ==
  \/ MainStart
  \/ DepthLimit
  \/ Enumerate
  \/ ProcessEntry
  \/ Return
  \/ MainExport
  \/ MainSummary
  \/ RunAgainSame

SpecOrder == InitOrder /\ [][NextOrder]_vars

\* C27: two finished runs on the same tree with the same configuration
\* have written the same stdout, the same stderr and the same export and
\* hold the same stats, whatever the orders in which the children of the
\* directories were enumerated in each.
C27_OrderIndependent ==
  (first.done /\ pc = "done") =>
    /\ first.out = out
    /\ first.err = err
    /\ first.tsv = tsv
    /\ first.stats = stats

\* both runs have ended and emitted two children of one directory
C27_Witness ==
  /\ first.done /\ pc = "done"
  /\ \E a, b \in EmittedSet : a # b /\ fs[a].parent = fs[b].parent

---------------------------------------------------------------------------
\* the largest element of a set of naturals, 0 for the empty set
SetMax(S) == IF S = {} THEN 0 ELSE CHOOSE x \in S : \A y \in S : y <= x

\* the levels of the printTree calls that passed the depth check and whose
\* directory was enumerated: the call for directory d has level Depth(d) + 1
ListedLevels == {Depth(d) + 1 : d \in {x \in Dirs : Entered(x) /\ ListedOk(x)}}

\* C28: at the end of a run stats.maxDepth is the largest level of a
\* printTree call that passed the depth check and enumerated its directory
\* successfully, 0 if there is none (the root's enumeration failed); with
\* maxLevel = k > 0 it is at most k.
C28_MaxDepth ==
  pc = "done" =>
    /\ stats.maxDepth = SetMax(ListedLevels)
    /\ args.maxLevel > 0 => stats.maxDepth <= args.maxLevel

---------------------------------------------------------------------------
(* The run as a sequential program: whenever a step can be taken, one is.  *)

\* the runs on a console with no option but -o and -l
InitLive ==
  /\ RunInit(FALSE)
  /\ console
  /\ Changed(args) \subseteq {"csvOut", "maxLevel"}

SpecLive == InitLive /\ [][Next]_vars /\ WF_vars(Next)

\* the number of calls of printTree for directory d
CallsFor(d) == Cardinality({k \in DOMAIN calls : calls[k] = d})

\* C29: every run on a finite tree comes to an end (main returns, or the
\* process is terminated), and once main has started the traversal
\* printTree has been called exactly once for the root, exactly once for
\* every emitted directory entry and for nothing else.
C29_TerminatesOneCallEach ==
  /\ <>(pc \in {"done", "aborted"})
  /\ [](pc # "start" =>
          \A d \in Dirs :
            CallsFor(d) = IF d = Root \/ d \in EmittedSet THEN 1 ELSE 0)

\* a finished run that emitted a directory inside a directory
C29_Witness ==
  /\ pc = "done"
  /\ \E d \in EmittedSet : fs[d].isDir /\ fs[d].parent # Root
  /\ Len(calls) >= 3

=============================================================================
